---- MODULE Spec2Model ----
(***************************************************************************)
(* Model of the streaming ar archive codec (package ar): the header codec, *)
(* the magic guard, the Reader and the Writer.                             *)
(*                                                                         *)
(* Bytes are their ASCII codes.  A byte string is a sequence of codes.     *)
(* 64-bit integers that only travel through the decimal text of a header   *)
(* (mtime, size) are kept as sign and decimal digits, because their text   *)
(* may be wider than the model checker's native integers.                  *)
(***************************************************************************)
EXTENDS Integers, Sequences, FiniteSets, TLC

----------------------------------------------------------------------------
(* Bounds of the model *)

\* most entries in an input archive, and most WriteFile calls
MaxEntries == 2
\* largest declared payload size
MaxSize == 2
\* longest buffer a caller hands to Read
MaxBuf == 2
\* Next calls recorded on one bound stream: enough to pass the end twice
MaxNext == MaxEntries + 2

----------------------------------------------------------------------------
(* Byte strings *)

\* the format's literals, ar.go:17-20
magic == <<33, 60, 97, 114, 99, 104, 62, 10>>
filemagic == <<96, 10>>

\* size of a per-entry header, ar.go:65 and ar.go:260
HeaderLen == 60

SP == 32
NL == 10

\* n copies of byte c (make + fill loop, ar.go:260-263)
Fill(n, c) == [i \in 1..n |-> c]

Min(a, b) == IF a < b THEN a ELSE b

\* Go's copy(dst[off:], s): overwrites from 0-based offset off, cut at the end
\* of dst, never at the end of a field
copy(dst, off, s) ==
    [i \in 1..Len(dst) |->
        IF i > off /\ i - off <= Len(s) THEN s[i - off] ELSE dst[i]]

\* s[lo:hi] with Go's 0-based half-open bounds
Slice(s, lo, hi) == SubSeq(s, lo + 1, hi)

\* the bytes unicode.IsSpace accepts below 0x80
IsSpace(c) == c \in {9, 10, 11, 12, 13, 32}

RECURSIVE TrimLeft(_)
TrimLeft(s) ==
    IF s = <<>> THEN <<>>
    ELSE IF IsSpace(s[1]) THEN TrimLeft(Tail(s)) ELSE s

RECURSIVE TrimRight(_)
TrimRight(s) ==
    IF s = <<>> THEN <<>>
    ELSE IF IsSpace(s[Len(s)]) THEN TrimRight(SubSeq(s, 1, Len(s) - 1)) ELSE s

\* bytes.TrimSpace
TrimSpace(s) == TrimRight(TrimLeft(s))

----------------------------------------------------------------------------
(* Numbers and their text (strconv) *)

\* digits of a native non-negative number, most significant first
RECURSIVE formatBits(_, _)
formatBits(u, base) ==
    IF u < base THEN <<u>>
    ELSE Append(formatBits(u \div base, base), u % base)

\* an int64 as sign and decimal digits
Int64(n) ==
    IF n < 0 THEN [neg |-> TRUE, mag |-> formatBits(-n, 10)]
    ELSE [neg |-> FALSE, mag |-> formatBits(n, 10)]

RECURSIVE natOf(_, _)
natOf(mag, acc) ==
    IF mag = <<>> THEN acc ELSE natOf(Tail(mag), acc * 10 + mag[1])

\* the native value of an int64 (used for sizes, which the model keeps small)
Native(v) == IF v.neg THEN 0 - natOf(v.mag, 0) ELSE natOf(v.mag, 0)

\* strconv.FormatInt(v, 10)
FormatInt(v) ==
    (IF v.neg THEN <<45>> ELSE <<>>) \o [i \in 1..Len(v.mag) |-> 48 + v.mag[i]]

\* strconv.FormatUint(u, 8)
FormatUint8(u) ==
    LET d == formatBits(u, 8) IN [i \in 1..Len(d) |-> 48 + d[i]]

RECURSIVE stripZeros(_)
stripZeros(d) ==
    IF Len(d) > 1 /\ d[1] = 0 THEN stripZeros(Tail(d)) ELSE d

\* largest magnitudes of an int64: 2^63 - 1 and 2^63
MaxInt64Mag == <<9, 2, 2, 3, 3, 7, 2, 0, 3, 6, 8, 5, 4, 7, 7, 5, 8, 0, 7>>
MinInt64Mag == <<9, 2, 2, 3, 3, 7, 2, 0, 3, 6, 8, 5, 4, 7, 7, 5, 8, 0, 8>>

RECURSIVE digitsLess(_, _)
digitsLess(a, b) ==
    IF a = <<>> THEN FALSE
    ELSE IF a[1] # b[1] THEN a[1] < b[1]
    ELSE digitsLess(Tail(a), Tail(b))

\* a < b or a = b for digit strings without leading zeros
MagLeq(a, b) ==
    \/ Len(a) < Len(b)
    \/ Len(a) = Len(b) /\ (a = b \/ digitsLess(a, b))

\* strconv.ParseInt(s, 10, 64): [err |-> "nil" | "syntax" | "range", val]
ParseInt(s) ==
    LET signed == s # <<>> /\ s[1] \in {43, 45}
        neg == s # <<>> /\ s[1] = 45
        body == IF signed THEN Tail(s) ELSE s
        mag == stripZeros([i \in 1..Len(body) |-> body[i] - 48])
    IN  IF body = <<>> \/ \E i \in 1..Len(body) : body[i] < 48 \/ body[i] > 57
        THEN [err |-> "syntax", val |-> Int64(0)]
        ELSE IF ~MagLeq(mag, IF neg THEN MinInt64Mag ELSE MaxInt64Mag)
        THEN [err |-> "range", val |-> Int64(0)]
        ELSE [err |-> "nil",
              val |-> [neg |-> neg /\ mag # <<0>>, mag |-> mag]]

\* the cutoff of strconv.ParseUint for base 8 and 32 bits: 2^32 / 8
Cutoff8 == 536870912

RECURSIVE parseOctal(_, _)
parseOctal(s, n) ==
    IF s = <<>> THEN [err |-> "nil", val |-> n]
    ELSE IF s[1] < 48 \/ s[1] > 55 THEN [err |-> "syntax", val |-> 0]
    ELSE IF n >= Cutoff8 THEN [err |-> "range", val |-> 0]
    ELSE parseOctal(Tail(s), n * 8 + (s[1] - 48))

\* strconv.ParseUint(s, 8, 32)
ParseUint8(s) ==
    IF s = <<>> THEN [err |-> "syntax", val |-> 0] ELSE parseOctal(s, 0)

RECURSIVE BitAnd(_, _)
BitAnd(a, b) ==
    IF a = 0 \/ b = 0 THEN 0
    ELSE 2 * BitAnd(a \div 2, b \div 2) + (a % 2) * (b % 2)

----------------------------------------------------------------------------
(* Errors *)

Error(kind, msg) == [kind |-> kind, msg |-> msg]

nil == Error("nil", "")
EOF == Error("io", "EOF")
ErrUnexpectedEOF == Error("io", "unexpected EOF")
ErrNotExist == Error("os", "file does not exist")
\* an I/O failure of the underlying stream or sink
EIO == Error("io", "input/output error")

CorruptArchiveError(msg) == Error("corrupt archive", msg)
NotImplementedError(msg) == Error("feature not implemented", msg)

----------------------------------------------------------------------------
(* Header codec *)

\* os.ModePerm and syscall.S_IFMT, syscall.S_IFREG
ModePerm == 511
S_IFMT == 61440
S_IFREG == 32768

fileInfo(name, mode, size, mtime) ==
    [name |-> name, mode |-> mode, size |-> size, mtime |-> mtime]

\* time.Unix(secs, 0), and t.Unix()
TimeUnix(secs) == [sec |-> secs, nsec |-> 0]
Unix(t) == t.sec

NoFile == fileInfo(<<>>, 0, 0, TimeUnix(Int64(0)))

\* parseFileMode that returns the mode with its file-type bits
parseFileMode_keepsType(s) ==
    LET p == ParseUint8(s)
        mode == p.val
    IN  IF p.err # "nil"
        THEN [err |-> CorruptArchiveError(p.err), filemode |-> 0]
        ELSE IF mode # BitAnd(mode, ModePerm + S_IFMT)
        THEN [err |-> CorruptArchiveError("invalid file mode"), filemode |-> 0]
        ELSE IF BitAnd(mode, S_IFMT) \notin {0, S_IFREG}
        THEN [err |-> NotImplementedError("non-regular files"), filemode |-> 0]
        ELSE [err |-> nil, filemode |-> mode]

parseFileMode(s) ==
    LET p == ParseUint8(s)
        mode == p.val
    IN  IF p.err # "nil"
        THEN [err |-> CorruptArchiveError(p.err), filemode |-> 0]
        ELSE IF mode # BitAnd(mode, ModePerm + S_IFMT)
        THEN [err |-> CorruptArchiveError("invalid file mode"), filemode |-> 0]
        ELSE IF BitAnd(mode, S_IFMT) \notin {0, S_IFREG}
        THEN [err |-> NotImplementedError("non-regular files"), filemode |-> 0]
        ELSE [err |-> nil, filemode |-> BitAnd(mode, ModePerm)]

parseFileHeader(header) ==
    LET name == TrimSpace(Slice(header, 0, 16))
        secs == ParseInt(TrimSpace(Slice(header, 16, 16 + 12)))
        fm == parseFileMode(TrimSpace(Slice(header, 40, 40 + 8)))
        filesize == ParseInt(TrimSpace(Slice(header, 48, 48 + 10)))
    IN  IF header[59] # filemagic[1] \/ header[60] # filemagic[2]
        THEN [err |-> CorruptArchiveError("per file magic not found"), fi |-> NoFile]
        ELSE IF secs.err # "nil"
        THEN [err |-> CorruptArchiveError(secs.err), fi |-> NoFile]
        ELSE IF fm.err # nil
        THEN [err |-> fm.err, fi |-> NoFile]
        ELSE IF filesize.err # "nil"
        THEN [err |-> CorruptArchiveError(filesize.err), fi |-> NoFile]
        ELSE [err |-> nil,
              fi |-> fileInfo(name, fm.filemode, Native(filesize.val),
                              TimeUnix(secs.val))]

\* the 60 bytes writeFileHeader hands to the buffer
fileHeader(meta) ==
    LET h0 == Fill(HeaderLen, SP)
        h1 == copy(h0, 0, meta.name)
        h2 == copy(h1, 16, FormatInt(Unix(meta.mtime)))
        h3 == copy(h2, 28, <<48>>)
        h4 == copy(h3, 34, <<48>>)
        h5 == copy(h4, 40, FormatUint8(meta.mode))
        h6 == copy(h5, 48, FormatInt(Int64(meta.size)))
    IN  copy(h6, 58, filemagic)

----------------------------------------------------------------------------
(* The underlying byte stream behind the Reader's bufio.Reader *)

\* data: the bytes the stream delivers; end: what it returns after them
Stream(data, end) == [data |-> data, end |-> end]

\* bytes still to come at position pos
Avail(st, pos) == Len(st.data) - pos

\* io.ReadFull(buffer, p) with len(p) = n: the bytes read and the error
ReadFull(st, pos, n) ==
    LET k == Min(n, Avail(st, pos))
        p == Slice(st.data, pos, pos + k)
    IN  IF k = n THEN [n |-> k, p |-> p, err |-> nil]
        ELSE IF k = 0 THEN [n |-> 0, p |-> p, err |-> st.end]
        ELSE [n |-> k, p |-> p,
              err |-> IF st.end = EOF THEN ErrUnexpectedEOF ELSE st.end]

\* bufio.Reader.ReadByte
ReadByte(st, pos) ==
    IF Avail(st, pos) > 0
    THEN [c |-> st.data[pos + 1], err |-> nil]
    ELSE [c |-> 0, err |-> st.end]

\* checkMagic without the comparison: any 8 bytes pass
checkMagic_acceptsAny(st, pos) ==
    LET m == ReadFull(st, pos, Len(magic))
    IN  [err |-> m.err, n |-> m.n]

checkMagic(st, pos) ==
    LET m == ReadFull(st, pos, Len(magic))
    IN  IF m.err # nil THEN [err |-> m.err, n |-> m.n]
        ELSE IF m.p # magic
        THEN [err |-> CorruptArchiveError("global archive header not found"),
              n |-> m.n]
        ELSE [err |-> nil, n |-> m.n]

----------------------------------------------------------------------------
(* Reader *)

\* section.R is either nil or the Reader's own buffer
NoSection == [R |-> FALSE, N |-> 0]

\* the Reader: buffer is the number of bytes taken from the stream
NewReader ==
    [buffer |-> 0, valid |-> FALSE, err |-> nil, section |-> NoSection]

\* Reset that rebinds the buffer and forgets the section but keeps the
\* sticky error
ReaderReset_keepsError(r) ==
    [r EXCEPT !.buffer = 0, !.valid = FALSE, !.section = NoSection]

\* Reset(in), the buffer rebound to the start of in
ReaderReset(r) ==
    [r EXCEPT !.buffer = 0, !.valid = FALSE, !.err = nil,
              !.section = NoSection]

\* stick with the assignment lost: the error is returned but not latched
stick_forgets(r, err) == r

stick(r, err) == [r EXCEPT !.err = err]

\* io.Copy(ioutil.Discard, &r.section): reads the section until it reports
\* an error, and returns that error unless it is io.EOF
discardSection(r, st) ==
    LET k == Min(r.section.N, Avail(st, r.buffer))
    IN  [r |-> [r EXCEPT !.buffer = @ + k, !.section.N = @ - k],
         err |-> IF k < r.section.N /\ st.end # EOF THEN st.end ELSE nil]

\* flush_section that closes a drained section without looking for the
\* padding byte
flush_section_keepsPadding(r, st) ==
    IF r.section.N > 0
    THEN LET d == discardSection(r, st)
         IN  [r |-> stick(d.r, d.err), err |-> d.err]
    ELSE [r |-> [r EXCEPT !.section = NoSection], err |-> nil]

\* flush_section without UnreadByte: the byte it looked at is gone
flush_section_noUnread(r, st) ==
    IF r.section.N > 0
    THEN LET d == discardSection(r, st)
         IN  [r |-> stick(d.r, d.err), err |-> d.err]
    ELSE LET b == ReadByte(st, r.buffer)
         IN  IF b.err # nil
             THEN [r |-> stick(r, b.err), err |-> b.err]
             ELSE [r |-> [r EXCEPT !.buffer = @ + 1, !.section = NoSection],
                   err |-> nil]

\* called with a section present (Next checks r.section.R != nil)
flush_section(r, st) ==
    IF r.section.N > 0
    THEN LET d == discardSection(r, st)
         IN  [r |-> stick(d.r, d.err), err |-> d.err]
    ELSE LET b == ReadByte(st, r.buffer)
         IN  IF b.err # nil
             THEN [r |-> stick(r, b.err), err |-> b.err]
             ELSE [r |-> [r EXCEPT
                            !.buffer = IF b.c # NL THEN @ ELSE @ + 1,
                            !.section = NoSection],
                   err |-> nil]

\* the header looked at with Peek instead of read: the position stays
nextHeader_peeks(r, st) ==
    LET h == ReadFull(st, r.buffer, HeaderLen)
        ph == parseFileHeader(h.p)
    IN  IF h.err # nil
        THEN [r |-> stick(r, h.err), fi |-> NoFile, err |-> h.err]
        ELSE IF ph.err # nil
        THEN [r |-> stick(r, ph.err), fi |-> NoFile, err |-> ph.err]
        ELSE [r |-> [r EXCEPT !.section = [R |-> TRUE, N |-> ph.fi.size]],
              fi |-> ph.fi, err |-> nil]

\* Next after the sticky-error check, from the header read on
nextHeader(r, st) ==
    LET h == ReadFull(st, r.buffer, HeaderLen)
        r1 == [r EXCEPT !.buffer = @ + h.n]
        ph == parseFileHeader(h.p)
    IN  IF h.err # nil
        THEN [r |-> stick(r1, h.err), fi |-> NoFile, err |-> h.err]
        ELSE IF ph.err # nil
        THEN [r |-> stick(r1, ph.err), fi |-> NoFile, err |-> ph.err]
        ELSE [r |-> [r1 EXCEPT !.section = [R |-> TRUE, N |-> ph.fi.size]],
              fi |-> ph.fi, err |-> nil]

\* Next after the sticky-error check and the magic, from the flush on
nextSection(r, st) ==
    IF r.section.R
    THEN LET f == flush_section(r, st)
         IN  IF f.err # nil
             THEN [r |-> stick(f.r, f.err), fi |-> NoFile, err |-> f.err]
             ELSE nextHeader(f.r, st)
    ELSE nextHeader(r, st)

\* Reader.Next: the new Reader, the metadata and the error returned
ReaderNext(r, st) ==
    IF r.err # nil THEN [r |-> r, fi |-> NoFile, err |-> r.err]
    ELSE IF ~r.valid
    THEN LET m == checkMagic(st, r.buffer)
             r1 == [r EXCEPT !.buffer = @ + m.n]
         IN  IF m.err # nil
             THEN [r |-> stick(r1, m.err), fi |-> NoFile, err |-> m.err]
             ELSE nextSection([r1 EXCEPT !.valid = TRUE], st)
    ELSE nextSection(r, st)

\* a section read that forgets the limit: it reads on past the entry's end
sectionRead_unbounded(r, st, len, k) ==
    LET have == Min(len, Avail(st, r.buffer))
        n == Min(k, have)
    IN  IF have = 0
        THEN [r |-> r, n |-> 0, p |-> <<>>, err |-> st.end]
        ELSE [r |-> [r EXCEPT !.buffer = @ + n, !.section.N = @ - n],
              n |-> n, p |-> Slice(st.data, r.buffer, r.buffer + n),
              err |-> nil]

\* a section read that never counts down what remains of the entry
sectionRead_noCountdown(r, st, len, k) ==
    LET want == Min(len, r.section.N)
        have == Min(want, Avail(st, r.buffer))
        n == Min(k, have)
    IN  IF r.section.N <= 0
        THEN [r |-> r, n |-> 0, p |-> <<>>, err |-> EOF]
        ELSE IF have = 0
        THEN [r |-> r, n |-> 0, p |-> <<>>, err |-> st.end]
        ELSE [r |-> [r EXCEPT !.buffer = @ + n],
              n |-> n, p |-> Slice(st.data, r.buffer, r.buffer + n),
              err |-> nil]

\* io.LimitedReader.Read on the buffer: b has length len and the buffer
\* hands over k bytes of what was asked (1 <= k, a short read is allowed)
sectionRead(r, st, len, k) ==
    LET want == Min(len, r.section.N)
        have == Min(want, Avail(st, r.buffer))
        n == Min(k, have)
    IN  IF r.section.N <= 0
        THEN [r |-> r, n |-> 0, p |-> <<>>, err |-> EOF]
        ELSE IF have = 0
        THEN [r |-> r, n |-> 0, p |-> <<>>, err |-> st.end]
        ELSE [r |-> [r EXCEPT !.buffer = @ + n, !.section.N = @ - n],
              n |-> n, p |-> Slice(st.data, r.buffer, r.buffer + n),
              err |-> nil]

\* Read that latches the error it returns, as Next does
ReaderRead_latches(r, st, len, k) ==
    IF r.err # nil THEN [r |-> r, n |-> 0, p |-> <<>>, err |-> r.err]
    ELSE IF r.section.R
    THEN LET s == sectionRead(r, st, len, k)
         IN  [s EXCEPT !.r = stick(s.r, s.err)]
    ELSE [r |-> stick(r, ErrNotExist), n |-> 0, p |-> <<>>,
          err |-> ErrNotExist]

\* Read without the test for an open section: it reads from the buffer
\* whatever the Reader is positioned on
ReaderRead_readsAnyway(r, st, len, k) ==
    IF r.err # nil THEN [r |-> r, n |-> 0, p |-> <<>>, err |-> r.err]
    ELSE IF r.section.R THEN sectionRead(r, st, len, k)
    ELSE LET n == Min(k, Min(len, Avail(st, r.buffer)))
         IN  [r |-> [r EXCEPT !.buffer = @ + n], n |-> n,
              p |-> Slice(st.data, r.buffer, r.buffer + n),
              err |-> IF n = 0 THEN st.end ELSE nil]

\* Reader.Read
ReaderRead(r, st, len, k) ==
    IF r.err # nil THEN [r |-> r, n |-> 0, p |-> <<>>, err |-> r.err]
    ELSE IF r.section.R THEN sectionRead(r, st, len, k)
    ELSE [r |-> r, n |-> 0, p |-> <<>>, err |-> ErrNotExist]

----------------------------------------------------------------------------
(* The sink behind the Writer's bufio.Writer *)

\* data: the bytes delivered so far; a limited sink fails with EIO once it
\* holds cap bytes
Sink(cap, limited) == [data |-> <<>>, cap |-> cap, limited |-> limited]

\* sink.Write(p): the sink, the count it took and its error
sinkWrite(sink, p) ==
    LET room == IF sink.limited THEN sink.cap - Len(sink.data) ELSE Len(p)
        n == Min(Len(p), room)
    IN  [sink |-> [sink EXCEPT !.data = @ \o SubSeq(p, 1, n)],
         n |-> n, err |-> IF n < Len(p) THEN EIO ELSE nil]

----------------------------------------------------------------------------
(* Writer *)

\* the Writer: buffer holds the bytes bufio has not delivered yet and berr is
\* the error bufio latched.  Entries of the model stay far below bufio's
\* buffer size, so bufio delivers to the sink on Flush only.
NewWriter == [buffer |-> <<>>, berr |-> nil, err |-> nil, valid |-> FALSE]

\* Reset that clears the flags but keeps the bytes buffered for the old sink
WriterReset_keepsBuffer(w) ==
    [w EXCEPT !.berr = nil, !.err = nil, !.valid = FALSE]

\* Writer.Reset(w): discards the buffered bytes and both errors, and the
\* magic is due again
WriterReset(w) ==
    [w EXCEPT !.buffer = <<>>, !.berr = nil, !.err = nil, !.valid = FALSE]

\* stick with the assignment lost: the error is returned but not latched
wstick_forgets(w, err) == w

wstick(w, err) == [w EXCEPT !.err = err]

\* bufio.Writer.Write, WriteString and WriteByte
bufWrite(w, p) ==
    IF w.berr # nil THEN [w |-> w, n |-> 0, err |-> w.berr]
    ELSE [w |-> [w EXCEPT !.buffer = @ \o p], n |-> Len(p), err |-> nil]

\* bufio.Writer.Flush
bufFlush(w, sink) ==
    IF w.berr # nil THEN [w |-> w, sink |-> sink, err |-> w.berr]
    ELSE IF w.buffer = <<>> THEN [w |-> w, sink |-> sink, err |-> nil]
    ELSE LET s == sinkWrite(sink, w.buffer)
         IN  IF s.err # nil
             THEN [w |-> [w EXCEPT
                            !.buffer = SubSeq(@, s.n + 1, Len(@)),
                            !.berr = s.err],
                   sink |-> s.sink, err |-> s.err]
             ELSE [w |-> [w EXCEPT !.buffer = <<>>], sink |-> s.sink,
                   err |-> nil]

\* writeArchiveHeader without its test of w.valid: the magic on every call
writeArchiveHeader_everyCall(w) ==
    LET b == bufWrite(w, magic)
    IN  [w |-> IF b.err = nil THEN [b.w EXCEPT !.valid = TRUE] ELSE b.w,
         n |-> b.n, err |-> b.err]

writeArchiveHeader(w) ==
    IF w.valid THEN [w |-> w, n |-> 0, err |-> nil]
    ELSE LET b == bufWrite(w, magic)
         IN  [w |-> IF b.err = nil THEN [b.w EXCEPT !.valid = TRUE] ELSE b.w,
              n |-> b.n, err |-> b.err]

\* writeFileHeader that cuts a long name to its field instead of refusing it
writeFileHeader_truncates(w, meta) ==
    bufWrite(w, fileHeader([meta EXCEPT
                              !.name = SubSeq(@, 1, Min(Len(@), 16))]))

writeFileHeader(w, meta) ==
    IF Len(meta.name) > 16
    THEN [w |-> w, n |-> 0,
          err |-> NotImplementedError(
                      "file names longer than 16 bytes are not supported")]
    ELSE bufWrite(w, fileHeader(meta))

\* io.Copy in place of io.CopyN's check: a source that ends early is no error
CopyN_acceptsShort(w, src, n) ==
    LET k == Min(n, Len(src.data))
        b == bufWrite(w, SubSeq(src.data, 1, k))
    IN  [w |-> b.w, n |-> b.n, read |-> b.n, err |-> b.err]

\* io.CopyN(w.buffer, r, n): copies until n bytes or the source's end
CopyN(w, src, n) ==
    LET k == Min(n, Len(src.data))
        b == bufWrite(w, SubSeq(src.data, 1, k))
    IN  IF b.err # nil THEN [w |-> b.w, n |-> 0, read |-> 0, err |-> b.err]
        ELSE [w |-> b.w, n |-> k, read |-> k,
              err |-> IF k < n THEN src.end ELSE nil]

\* what WriteFile returns: the Writer and the sink after the call, the count
\* and the error, the bytes taken from the source and whether it padded
Written(w, sink, written, err, read, padded) ==
    [w |-> w, sink |-> sink, written |-> written, err |-> err,
     read |-> read, padded |-> padded]

\* the padding test on the payload that follows an even count
padAndFlush_padsEven(w, sink, written, read) ==
    LET pad == written % 2 = 0
        b == IF pad THEN bufWrite(w, <<NL>>) ELSE [w |-> w, n |-> 0, err |-> nil]
        f == bufFlush(b.w, sink)
    IN  Written(wstick(f.w, f.err), f.sink,
                IF pad THEN written + 1 ELSE written, f.err, read, pad)

\* WriteFile from the padding test on: written is the count so far
padAndFlush(w, sink, written, read) ==
    LET pad == written % 2 = 1
        b == IF pad THEN bufWrite(w, <<NL>>) ELSE [w |-> w, n |-> 0, err |-> nil]
        f == bufFlush(b.w, sink)
    IN  IF b.err # nil
        THEN Written(wstick(b.w, b.err), sink, written, b.err, read, FALSE)
        ELSE Written(wstick(f.w, f.err), f.sink,
                     IF pad THEN written + 1 ELSE written, f.err, read, pad)

\* Writer.WriteFile(meta, r)
WriterWriteFile(w, sink, meta, src) ==
    IF w.err # nil THEN Written(w, sink, 0, w.err, 0, FALSE)
    ELSE LET a == writeArchiveHeader(w)
             h == writeFileHeader(a.w, meta)
             c == CopyN(h.w, src, meta.size)
         IN  IF a.err # nil
             THEN Written(wstick(a.w, a.err), sink, a.n, a.err, 0, FALSE)
             ELSE IF h.err # nil
             THEN Written(wstick(h.w, h.err), sink, a.n + h.n, h.err, 0, FALSE)
             ELSE IF c.err # nil
             THEN Written(wstick(c.w, c.err), sink, a.n + h.n + c.n, c.err,
                          c.read, FALSE)
             ELSE padAndFlush(c.w, sink, a.n + h.n + c.n, c.read)

----------------------------------------------------------------------------
(* Input archives for the Reader *)

\* the metadata of the i-th entry of an input archive: the two entries of
\* testCommon, then the entries of benchmarkReader; mode is the header's
\* mode field, type bits included
metaAt(i, size) ==
    IF i = 1
    THEN fileInfo(<<100, 101, 98, 105, 97, 110, 45, 98, 105, 110, 97, 114, 121>>,
                  33188, size, TimeUnix(Int64(1385068169)))
    ELSE IF i = 2
    THEN fileInfo(<<99, 111, 110, 116, 114, 111, 108, 46, 116, 97, 114, 46, 103, 122>>,
                  420, size, TimeUnix(Int64(1385068169)))
    ELSE fileInfo(<<49, 48, 48, 48 + (i % 10)>>, 416, size, TimeUnix(Int64(i)))

\* the payload of the i-th entry: "2.0\n" repeated for odd i, newlines for
\* even i
payloadAt(i, size) ==
    [j \in 1..size |->
        IF i % 2 = 0 THEN NL ELSE <<50, 46, 48, 10>>[((j - 1) % 4) + 1]]

\* genArchiveFile, with the padding an archive on disk carries
genArchiveFile(i, size) ==
    fileHeader(metaAt(i, size)) \o payloadAt(i, size)
        \o (IF size % 2 = 1 THEN <<NL>> ELSE <<>>)

\* an archive is given by the sizes of its entries
Archives == UNION {[1..n -> 0..MaxSize] : n \in 0..MaxEntries}

RECURSIVE entriesBytes(_, _)
entriesBytes(sizes, n) ==
    IF n = 0 THEN <<>>
    ELSE entriesBytes(sizes, n - 1) \o genArchiveFile(n, sizes[n])

archiveBytes(sizes) == magic \o entriesBytes(sizes, Len(sizes))

\* length of the first n entries: header, payload and padding of each
RECURSIVE entriesLen(_, _)
entriesLen(sizes, n) ==
    IF n = 0 THEN 0
    ELSE entriesLen(sizes, n - 1) + HeaderLen + sizes[n] + (sizes[n] % 2)

archiveLen(sizes) == Len(magic) + entriesLen(sizes, Len(sizes))

\* offset of the i-th header
headerOffset(sizes, i) == Len(magic) + entriesLen(sizes, i - 1)

\* what a successful decode of the i-th header returns
decodedAt(sizes, i) ==
    LET m == metaAt(i, sizes[i])
    IN  fileInfo(m.name, BitAnd(m.mode, ModePerm), m.size, m.mtime)

\* the offsets at which a structure of the archive starts or ends
Boundaries(sizes) ==
    {0, Len(magic)}
    \cup UNION {LET h == headerOffset(sizes, i)
                IN  {h + HeaderLen, h + HeaderLen + sizes[i],
                     h + HeaderLen + sizes[i] + (sizes[i] % 2)} :
                i \in 1..Len(sizes)}

\* where a stream is cut: at a boundary or one byte off it
Cuts(sizes) ==
    LET bs == Boundaries(sizes)
    IN  {c \in UNION {{b - 1, b, b + 1} : b \in bs} :
            c >= 0 /\ c <= archiveLen(sizes)}

\* the damaged headers of testCommonFileHeaders and a damaged global magic;
\* "none" leaves the archive as generated
Kinds ==
    {"none", "magic", "filemagic", "nonregular", "invalidmode", "mtime",
     "owner", "group", "size", "negsize"}

\* the archive with its last header (or its magic) damaged
damage(kind, sizes) ==
    LET b == archiveBytes(sizes)
        h == headerOffset(sizes, Len(sizes))
    IN  CASE kind = "none" -> b
          [] kind = "magic" -> copy(b, 0, <<97>>)
          [] kind = "filemagic" -> copy(b, h + 58, <<97>>)
          [] kind = "nonregular" -> copy(b, h + 40, <<49, 50, 48, 54, 52, 52>>)
          [] kind = "invalidmode" -> copy(b, h + 40, <<50, 50, 48, 54, 52, 52>>)
          [] kind = "mtime" -> copy(b, h + 16, <<97>>)
          [] kind = "owner" -> copy(b, h + 28, <<97>>)
          [] kind = "group" -> copy(b, h + 34, <<98>>)
          [] kind = "size" -> copy(b, h + 48, <<97>>)
          [] kind = "negsize" -> copy(b, h + 48, <<45, 49>>)

----------------------------------------------------------------------------
(* Inputs of the Writer *)

\* the entry of TestWriterBasics
debianBinary(size) ==
    fileInfo(<<100, 101, 98, 105, 97, 110, 45, 98, 105, 110, 97, 114, 121>>,
             420, size, TimeUnix(Int64(1385068169)))

\* the metadata handed to WriteFile: the entry of TestWriterBasics, a name
\* that fills its field, an mtime of thirteen digits, and a name of
\* seventeen bytes
writerMetas(size) ==
    {debianBinary(size),
     fileInfo(<<48, 49, 50, 51, 52, 53, 54, 55, 56, 57, 97, 98, 99, 100, 101, 102>>,
              493, size, TimeUnix(Int64(0))),
     fileInfo(<<99, 111, 110, 116, 114, 111, 108, 46, 116, 97, 114, 46, 103, 122>>,
              420, size,
              TimeUnix([neg |-> FALSE,
                        mag |-> <<1, 0, 0, 0, 0, 0, 0, 0, 0, 0, 0, 0, 0>>])),
     fileInfo(<<48, 49, 50, 51, 52, 53, 54, 55, 56, 57, 97, 98, 99, 100, 101, 102, 103>>,
              420, size, TimeUnix(Int64(1385068169)))}

\* a WriteFile call: the metadata and a payload source that ends with EOF
WriteCallOf(m, n) ==
    [meta |-> m, src |-> Stream(payloadAt(Len(m.name), n), EOF)]

\* calls whose source holds exactly the declared size and whose name fits
ExactCalls ==
    {WriteCallOf(m, m.size) :
        m \in {x \in UNION {writerMetas(size) : size \in 0..MaxSize} :
                  Len(x.name) <= 16}}

\* every call: also the name that does not fit, and sources one byte short
\* of the declared size or one byte longer
WriteCalls ==
    {WriteCallOf(m, m.size) :
        m \in UNION {writerMetas(size) : size \in 0..MaxSize}}
    \cup {WriteCallOf(debianBinary(size), n) :
            size \in 0..MaxSize, n \in 0..(MaxSize + 1)}

----------------------------------------------------------------------------
(* State *)

VARIABLES
    stream,   \* the byte stream the Reader is bound to
    rd,       \* the Reader
    arch,     \* how the stream was made: sizes, kind, whether it is whole
    nexts,    \* the results of the Next calls since the Reader was bound
    got,      \* the payload bytes Read has delivered for the open entry
    last,     \* the last Reader call and what it returned
    drained,  \* no Next so far was called with unread payload bytes
    readErr,  \* the first error a Read returned since the Reader was bound
    wr,       \* the Writer
    sink,     \* the sink the Writer is bound to
    wlast,    \* the last WriteFile call and what it returned
    wrote,    \* the entries of the WriteFile calls that returned no error
    codec     \* a call of the header codec or the magic guard on its own

readerVars == <<stream, rd, arch, nexts, got, last, drained, readErr>>
writerVars == <<wr, sink, wlast, wrote>>
vars == <<stream, rd, arch, nexts, got, last, drained, readErr,
          wr, sink, wlast, wrote, codec>>

Call(op, n, err) == [op |-> op, n |-> n, err |-> err]

\* a Read call: the length of the buffer it was given and what it returned
ReadCall(len, n, err) == [op |-> "Read", len |-> len, n |-> n, err |-> err]

\* the first error a Next returned since the Reader was bound
RECURSIVE firstErr(_)
firstErr(rs) ==
    IF rs = <<>> THEN nil
    ELSE IF rs[1].err # nil THEN rs[1].err ELSE firstErr(Tail(rs))

nextErr == firstErr(nexts)

\* a WriteFile call and its result: pre is every byte the Writer had taken
\* before the call (delivered or buffered), sunk the number of bytes the
\* sink held before the call, sticky whether the call found an error latched
WriteCall(op, c, pre, sunk, sticky, res) ==
    [op |-> op, meta |-> c.meta, src |-> c.src, pre |-> pre, sunk |-> sunk,
     sticky |-> sticky, err |-> res.err, written |-> res.written,
     read |-> res.read, padded |-> res.padded]

NoWriteCall ==
    WriteCall("NewWriter", [meta |-> NoFile, src |-> Stream(<<>>, EOF)],
              <<>>, 0, FALSE, Written(NewWriter, Sink(0, FALSE), 0, nil, 0, FALSE))

\* a call of a pure function: its input, the header an encode produced, the
\* result, and whether the call has returned
CodecCall(kind, in, hdr, out, done) ==
    [kind |-> kind, in |-> in, hdr |-> hdr, out |-> out, done |-> done]

NoCodec == CodecCall("none", <<>>, <<>>, nil, FALSE)

\* a Reader freshly bound to its stream
ReaderFresh ==
    /\ rd = NewReader
    /\ nexts = <<>>
    /\ got = <<>>
    /\ drained = TRUE
    /\ readErr = nil

\* a Writer freshly bound to its sink
WriterFresh ==
    /\ wr = NewWriter
    /\ wlast = NoWriteCall
    /\ wrote = <<>>

\* the Reader on an input archive: whole, cut, damaged, or failing
Init ==
    /\ \E sizes \in Archives : \E kind \in Kinds :
         LET whole == damage(kind, sizes)
         IN  \E c \in Cuts(sizes) : \E end \in {EOF, EIO} :
               /\ kind # "none" =>
                    /\ kind = "magic" \/ Len(sizes) > 0
                    /\ c = Len(whole)
                    /\ end = EOF
               /\ stream = Stream(SubSeq(whole, 1, c), end)
               /\ arch = [sizes |-> sizes, kind |-> kind,
                          whole |-> c = Len(whole)]
    /\ ReaderFresh
    /\ last = Call("NewReader", 0, nil)
    /\ WriterFresh
    /\ sink = Sink(0, FALSE)
    /\ codec = NoCodec

\* r.Next()
Next ==
    /\ Len(nexts) < MaxNext
    /\ LET res == ReaderNext(rd, stream)
       IN  /\ rd' = res.r
           /\ nexts' = Append(nexts, [fi |-> res.fi, err |-> res.err])
           /\ got' = IF res.err = nil THEN <<>> ELSE got
           /\ last' = Call("Next", 0, res.err)
           /\ drained' = (drained /\ ~(rd.err = nil /\ rd.section.N > 0))
    /\ UNCHANGED <<stream, arch, readErr>>
    /\ UNCHANGED <<writerVars, codec>>

\* r.Read(b) with len(b) = len
Read ==
    \E len \in 1..MaxBuf : \E k \in 1..len :
        LET res == ReaderRead(rd, stream, len, k)
        IN  /\ rd' = res.r
            /\ got' = got \o res.p
            /\ last' = ReadCall(len, res.n, res.err)
            /\ readErr' = IF readErr = nil THEN res.err ELSE readErr
            /\ UNCHANGED <<stream, arch, nexts, drained>>
            /\ UNCHANGED <<writerVars, codec>>

\* r.Reset(in) with in the same stream rewound to its start (BenchmarkReader);
\* recorded with what it cancels: the unread payload bytes and the sticky
\* error
Reset ==
    /\ rd' = ReaderReset(rd)
    /\ nexts' = <<>>
    /\ got' = <<>>
    /\ last' = Call("Reset", rd.section.N, rd.err)
    /\ drained' = TRUE
    /\ readErr' = nil
    /\ UNCHANGED <<stream, arch>>
    /\ UNCHANGED <<writerVars, codec>>

NextStep == Next \/ Read \/ Reset

Spec == Init /\ [][NextStep]_vars

\* w.WriteFile(meta, r) for one of the given calls
WriteFile(calls) ==
    /\ Len(wrote) < MaxEntries
    /\ \E c \in calls :
         LET res == WriterWriteFile(wr, sink, c.meta, c.src)
         IN  /\ wr' = res.w
             /\ sink' = res.sink
             /\ wlast' = WriteCall("WriteFile", c, sink.data \o wr.buffer,
                                   Len(sink.data), wr.err # nil, res)
             /\ wrote' = IF res.err = nil
                         THEN Append(wrote,
                                     [meta |-> c.meta,
                                      payload |-> SubSeq(c.src.data, 1,
                                                         res.read)])
                         ELSE wrote
    /\ UNCHANGED <<readerVars, codec>>

WriteAny == WriteFile(WriteCalls)

WriteExact == WriteFile(ExactCalls)

\* the sinks of the Writer: a bytes.Buffer, and sinks that fail when full
Sinks ==
    {Sink(0, FALSE)}
    \cup {Sink(cap, TRUE) :
            cap \in {0, Len(magic) + HeaderLen, Len(magic) + 2 * HeaderLen + 1}}

\* the Writer alone, on any sink
InitWriter ==
    /\ stream = Stream(<<>>, EOF)
    /\ arch = [sizes |-> <<>>, kind |-> "written", whole |-> TRUE]
    /\ ReaderFresh
    /\ last = Call("NewWriter", 0, nil)
    /\ WriterFresh
    /\ sink \in Sinks
    /\ codec = NoCodec

SpecWriter == InitWriter /\ [][WriteAny]_vars

\* dest.Reset(); w.Reset(dest) of benchmarkWriter: the sink emptied and the
\* Writer rebound to it; recorded with the bytes taken before and whether an
\* error was latched
ResetWriter ==
    /\ wr' = WriterReset(wr)
    /\ sink' = [sink EXCEPT !.data = <<>>]
    /\ wlast' = WriteCall("Reset", [meta |-> NoFile, src |-> Stream(<<>>, EOF)],
                          sink.data \o wr.buffer, Len(sink.data), wr.err # nil,
                          Written(NewWriter, sink, 0, nil, 0, FALSE))
    /\ wrote' = <<>>
    /\ UNCHANGED <<readerVars, codec>>

NextWriterReset == WriteAny \/ ResetWriter

\* the Writer reused across archives
SpecWriterReset == InitWriter /\ [][NextWriterReset]_vars

\* NewReader(bytes.NewReader(b.Bytes())) on what the Writer has delivered
Open ==
    /\ stream' = Stream(sink.data, EOF)
    /\ rd' = NewReader
    /\ nexts' = <<>>
    /\ got' = <<>>
    /\ last' = Call("NewReader", 0, nil)
    /\ drained' = TRUE
    /\ readErr' = nil
    /\ UNCHANGED arch
    /\ UNCHANGED <<writerVars, codec>>

\* the Writer on a bytes.Buffer, then a Reader on the bytes it delivered
InitRoundTrip ==
    /\ InitWriter
    /\ sink = Sink(0, FALSE)

Writing == last.op = "NewWriter"

NextRoundTrip ==
    \/ Writing /\ WriteExact
    \/ Writing /\ Open
    \/ ~Writing /\ Next
    \/ ~Writing /\ Read

SpecRoundTrip == InitRoundTrip /\ [][NextRoundTrip]_vars

----------------------------------------------------------------------------
(* The header codec and the magic guard on their own *)

\* metadata handed to the encoder: names up to the width of their field,
\* permission bits with and without the regular-file bit, sizes up to ten
\* digits, and mtimes of one to thirteen characters
CodecNames ==
    {<<>>,
     <<100, 101, 98, 105, 97, 110, 45, 98, 105, 110, 97, 114, 121>>,
     <<48, 49, 50, 51, 52, 53, 54, 55, 56, 57, 97, 98, 99, 100, 101, 102>>}

CodecModes == {0, 420, 493, 511, S_IFREG + 420}

CodecSizes == (0..MaxSize) \cup {1234567890}

CodecTimes ==
    {Int64(0), Int64(1385068169), Int64(-1),
     [neg |-> FALSE, mag |-> <<9, 9, 9, 9, 9, 9, 9, 9, 9, 9, 9, 9>>],
     [neg |-> FALSE, mag |-> <<1, 0, 0, 0, 0, 0, 0, 0, 0, 0, 0, 0, 0>>]}

CodecMetas ==
    {fileInfo(n, m, s, TimeUnix(secs)) :
        n \in CodecNames, m \in CodecModes, s \in CodecSizes,
        secs \in CodecTimes}

\* a mode value by its parts: permission bits, file-type bits (none, regular,
\* symlink, directory, all four bits) and bits outside both (sticky, setuid,
\* and the bits above the file type)
ModeValues ==
    [perm : {0, 420, 511},
     type : {0, S_IFREG, 40960, 16384, S_IFMT},
     extra : {0, 512, 2048, 65536, 2097152}]

\* the header of testCommonFileHeaders with the given mode in its field
modeHeader(m) ==
    copy(copy(fileHeader(debianBinary(4)), 40, Fill(8, SP)), 40,
         FormatUint8(m.perm + m.type + m.extra))

\* the streams of TestReadMagic and their neighbours: the magic cut at every
\* length, the magic with bytes after it, the magic with one byte changed,
\* and runs of one letter
MagicStreams ==
    {SubSeq(magic, 1, n) : n \in 0..Len(magic)}
    \cup {magic \o Fill(n, 97) : n \in 1..2}
    \cup {copy(magic, i, <<97>>) \o Fill(n, 97) :
             i \in 0..(Len(magic) - 1), n \in 0..1}
    \cup {Fill(n, 97) : n \in 1..(Len(magic) + 1)}

InitCodec ==
    /\ stream = Stream(<<>>, EOF)
    /\ arch = [sizes |-> <<>>, kind |-> "codec", whole |-> TRUE]
    /\ ReaderFresh
    /\ last = Call("NewReader", 0, nil)
    /\ WriterFresh
    /\ sink = Sink(0, FALSE)
    /\ codec \in {CodecCall("meta", m, <<>>, nil, FALSE) : m \in CodecMetas}
                \cup {CodecCall("mode", m, <<>>, nil, FALSE) : m \in ModeValues}
                \cup {CodecCall("magic", s, <<>>, nil, FALSE) :
                         s \in MagicStreams}

\* writeFileHeader on an empty buffer: the 60 bytes it hands over
EncodeHeader ==
    /\ codec.kind = "meta" /\ ~codec.done /\ codec.hdr = <<>>
    /\ LET h == writeFileHeader(NewWriter, codec.in)
       IN  codec' = [codec EXCEPT !.hdr = h.w.buffer]
    /\ UNCHANGED <<readerVars, writerVars>>

\* parseFileHeader on the bytes the encoder produced
DecodeHeader ==
    /\ codec.kind = "meta" /\ ~codec.done /\ codec.hdr # <<>>
    /\ codec' = [codec EXCEPT !.out = parseFileHeader(codec.hdr),
                              !.done = TRUE]
    /\ UNCHANGED <<readerVars, writerVars>>

\* parseFileHeader on a header that carries the given mode
DecodeMode ==
    /\ codec.kind = "mode" /\ ~codec.done
    /\ codec' = [codec EXCEPT !.hdr = modeHeader(codec.in),
                              !.out = parseFileHeader(modeHeader(codec.in)),
                              !.done = TRUE]
    /\ UNCHANGED <<readerVars, writerVars>>

\* checkMagic on a stream that ends with io.EOF
CheckMagic ==
    /\ codec.kind = "magic" /\ ~codec.done
    /\ codec' = [codec EXCEPT !.out = checkMagic(Stream(codec.in, EOF), 0),
                              !.done = TRUE]
    /\ UNCHANGED <<readerVars, writerVars>>

NextCodec == EncodeHeader \/ DecodeHeader \/ DecodeMode \/ CheckMagic

SpecCodec == InitCodec /\ [][NextCodec]_vars

----------------------------------------------------------------------------
(* Reader claims *)

\* the stream is a whole, undamaged archive that ends with a clean EOF
WellFormed == arch.kind = "none" /\ arch.whole /\ stream.end = EOF

\* what the i-th Next returns on a well-formed archive
expectedNext(i) ==
    IF i <= Len(arch.sizes)
    THEN [fi |-> decodedAt(arch.sizes, i), err |-> nil]
    ELSE [fi |-> NoFile, err |-> EOF]

\* an entry is open: the last Next succeeded and nothing is latched
EntryOpen == rd.err = nil /\ rd.section.R

\* the metadata of the open entry
current == nexts[Len(nexts)].fi

\* C1: on a well-formed archive the results of the Next calls are each
\* entry's metadata in order and then the clean end of the archive, however
\* many payload bytes the caller read between the calls.
C1_NextAlignedWhateverWasRead ==
    WellFormed => \A i \in 1..Len(nexts) : nexts[i] = expectedNext(i)

\* C3: on a well-formed archive read by alternating Next and a full drain,
\* the k-th Next returns the k-th header's metadata, the drain delivers
\* exactly that entry's payload, Read ends it with a clean EOF, and the Next
\* after the last entry returns io.EOF.
C3_ReaderEndToEnd ==
    (WellFormed /\ drained) =>
        /\ \A i \in 1..Len(nexts) : nexts[i] = expectedNext(i)
        /\ EntryOpen =>
            /\ got = SubSeq(payloadAt(Len(nexts), current.size), 1,
                            current.size - rd.section.N)
            /\ last.op = "Read" => last.err \in {nil, EOF}
            /\ (last.op = "Read" /\ last.err = EOF) => rd.section.N = 0

\* C3 witness: a two-entry archive whose last payload has odd size was read
\* to the end with full drains, and the third Next returned io.EOF.
C3_Witness ==
    /\ WellFormed /\ drained
    /\ Len(arch.sizes) = 2 /\ arch.sizes[2] % 2 = 1
    /\ Len(nexts) = 3 /\ nexts[3].err = EOF
    /\ readErr = EOF

\* C4: when Read ends an entry's payload with the clean end-of-stream
\* signal, it has delivered exactly Size() bytes of that entry, also when
\* the stream (an undamaged archive, whole or cut) ends inside the payload.
C4_PayloadExact ==
    (arch.kind = "none" /\ EntryOpen /\ last.op = "Read" /\ last.err = EOF) =>
        Len(got) = current.size

\* the stream lengths at which an undamaged archive ends cleanly
CleanEnds ==
    {0, Len(magic)}
    \cup UNION {LET e == headerOffset(arch.sizes, i) + HeaderLen + arch.sizes[i]
                IN  {e, e + (arch.sizes[i] % 2)} : i \in 1..Len(arch.sizes)}

\* C5: Next returns io.EOF only when the stream ends at a clean boundary:
\* before the magic, right after it, or right after a payload and its
\* padding byte.
C5_CleanEndOnly ==
    (arch.kind = "none" /\ last.op = "Next" /\ last.err = EOF) =>
        /\ stream.end = EOF
        /\ Len(stream.data) \in CleanEnds

\* C6: once Next has returned an error, every later Next and Read returns
\* that error and takes no byte from the stream, until Reset.
C6_StickyAfterNext ==
    [][(nextErr # nil /\ last'.op \in {"Next", "Read"}) =>
          (last'.err = nextErr /\ rd'.buffer = rd.buffer)]_vars

\* C6 witness: a Read after a Next that failed on a damaged header returned
\* the error of that Next.
C6_Witness ==
    /\ nextErr.kind = "corrupt archive"
    /\ last.op = "Read" /\ last.err = nextErr

\* C7 as claimed: once Read has returned an error, every later Next and Read
\* returns that error.
C7_ReadErrorLatched ==
    [][(readErr # nil /\ last'.op \in {"Next", "Read"}) =>
          last'.err = readErr]_vars

\* C7 as amended: Read never latches an error.  It returns the sticky error
\* when an earlier Next set one, and otherwise leaves the sticky error
\* unset whatever it returns; only Next and Reset change the sticky error.
C7_ReadDoesNotLatch ==
    [][last'.op = "Read" =>
          /\ rd'.err = rd.err
          /\ rd.err # nil => last'.err = rd.err]_vars

\* C7 witness: a Read returned the end-of-payload EOF and the Next after it
\* succeeded.
C7_Witness ==
    /\ readErr = EOF
    /\ Len(nexts) = 2 /\ last.op = "Next" /\ last.err = nil

----------------------------------------------------------------------------
(* Writer claims *)

\* the last WriteFile call found no error latched and a name that fits, so
\* it reached the copy of the payload
ReachedCopy ==
    wlast.op = "WriteFile" /\ ~wlast.sticky /\ Len(wlast.meta.name) <= 16

\* every byte the Writer has taken so far, delivered or still buffered
taken == sink.data \o wr.buffer

\* what a call that reached the copy puts before the payload
lead ==
    (IF wlast.pre = <<>> THEN magic ELSE <<>>) \o fileHeader(wlast.meta)

\* C2: the bytes of successful WriteFile calls, read back by a fresh Reader
\* with alternating Next and full drains, give the same names, modes, sizes,
\* mtimes and payloads in order, and then io.EOF.
C2_WriteReadRoundTrip ==
    (~Writing /\ wr.err = nil /\ drained) =>
        /\ \A i \in 1..Len(nexts) :
              nexts[i] = IF i <= Len(wrote)
                         THEN [fi |-> wrote[i].meta, err |-> nil]
                         ELSE [fi |-> NoFile, err |-> EOF]
        /\ EntryOpen =>
              got = SubSeq(wrote[Len(nexts)].payload, 1,
                           current.size - rd.section.N)

\* C8: after every successful WriteFile the bytes emitted since the start of
\* the archive are even in number and all delivered, the header of the call
\* started at an even offset, and the call wrote one padding byte exactly
\* when the archive offset after the payload was odd.
C8_WriterAlignment ==
    (wlast.op = "WriteFile" /\ wlast.err = nil) =>
        LET hdr == Len(wlast.pre) + (IF wlast.pre = <<>> THEN Len(magic) ELSE 0)
            end == hdr + HeaderLen + wlast.meta.size
        IN  /\ wr.buffer = <<>>
            /\ Len(sink.data) % 2 = 0
            /\ hdr % 2 = 0
            /\ wlast.padded <=> end % 2 = 1
            /\ Len(sink.data) = end + (IF wlast.padded THEN 1 ELSE 0)
            /\ wlast.padded => sink.data[Len(sink.data)] = NL

\* C8 witness: the second successful call of an archive wrote an odd payload
\* and padded it.
C8_Witness ==
    /\ wlast.op = "WriteFile" /\ wlast.err = nil
    /\ Len(wrote) = 2 /\ wlast.meta.size % 2 = 1 /\ wlast.padded

\* C9: WriteFile copies exactly Size() bytes of the source; when the source
\* ends before that, the call returns an error, latches it, and has emitted
\* the source's bytes and nothing after them.
C9_SizeFidelity ==
    ReachedCopy =>
        /\ wlast.read = Min(wlast.meta.size, Len(wlast.src.data))
        /\ Len(wlast.src.data) < wlast.meta.size =>
              /\ wlast.err # nil
              /\ wr.err = wlast.err
              /\ ~wlast.padded
              /\ taken = wlast.pre \o lead \o wlast.src.data
        /\ wlast.err = nil =>
              taken = wlast.pre \o lead
                        \o SubSeq(wlast.src.data, 1, wlast.meta.size)
                        \o (IF wlast.padded THEN <<NL>> ELSE <<>>)

\* C9 witness: a call declared two bytes and its source held one.
C9_Witness ==
    /\ ReachedCopy
    /\ wlast.meta.size = 2 /\ Len(wlast.src.data) = 1
    /\ wlast.err = EOF

\* C10: once WriteFile has returned an error, every later WriteFile returns
\* that error with written = 0, reads nothing from its source and emits
\* nothing.
C10_WriterSticky ==
    [][(wlast.err # nil /\ wlast'.op = "WriteFile") =>
          /\ wlast'.err = wlast.err
          /\ wlast'.written = 0
          /\ wlast'.read = 0
          /\ sink' = sink
          /\ wr' = wr]_vars

\* C10 witness: a call with a non-empty source found the error of a short
\* source latched and returned it.
C10_Witness ==
    /\ wlast.op = "WriteFile" /\ wlast.sticky
    /\ wlast.err = EOF /\ wlast.src.data # <<>>

\* C11: on every return of WriteFile, with or without an error, the buffer
\* has been flushed and the returned count is the number of bytes the call
\* delivered to the sink, already when the sink itself never fails.
C11_ByteAccounting ==
    (wlast.op = "WriteFile" /\ ~sink.limited) =>
        /\ wr.buffer = <<>>
        /\ wlast.written = Len(sink.data) - wlast.sunk

\* what a call that found no error latched hands to the buffer: the magic
\* when nothing was written before, then, for a name that fits, the header,
\* the bytes copied and the padding
emittedBy(call) ==
    (IF call.pre = <<>> THEN magic ELSE <<>>)
        \o (IF Len(call.meta.name) <= 16
            THEN fileHeader(call.meta)
                     \o SubSeq(call.src.data, 1, call.read)
                     \o (IF call.padded THEN <<NL>> ELSE <<>>)
            ELSE <<>>)

emitted == emittedBy(wlast)

\* C12: the first WriteFile of a Writer puts the 8-byte magic before its
\* header and counts it; no later WriteFile writes the magic again; so what
\* the Writer has emitted starts with the magic, and what the sink holds is
\* the start of it.
C12_MagicOnce ==
    /\ (wlast.op = "WriteFile" /\ ~wlast.sticky) =>
          /\ wr.valid
          /\ taken = wlast.pre \o emitted
          /\ wlast.written = Len(emitted)
    /\ taken # <<>> => SubSeq(taken, 1, Len(magic)) = magic
    /\ \A i \in 1..Min(Len(magic), Len(sink.data)) : sink.data[i] = magic[i]

\* C12 witness: the second successful call of an archive returned, after a
\* first call that had written the magic.
C12_Witness ==
    /\ wlast.op = "WriteFile" /\ wlast.err = nil
    /\ Len(wrote) = 2
    /\ SubSeq(wlast.pre, 1, Len(magic)) = magic
    /\ wlast.written = HeaderLen + wlast.meta.size + (wlast.meta.size % 2)

\* the error of a name that does not fit its field
NameTooLong ==
    NotImplementedError("file names longer than 16 bytes are not supported")

\* C13: a WriteFile whose name is longer than 16 bytes returns
\* NotImplementedError and latches it, hands no header byte and no payload
\* byte to the buffer (only the magic, when it is the first call), delivers
\* nothing to the sink and takes nothing from the source; every WriteFile
\* after it returns that error and emits nothing.
C13_NameTooLong ==
    [][wlast'.op = "WriteFile" =>
          /\ (wr.err = nil /\ Len(wlast'.meta.name) > 16) =>
                /\ wlast'.err = NameTooLong
                /\ wr'.err = NameTooLong
                /\ wlast'.read = 0
                /\ sink' = sink
                /\ wr'.buffer = wr.buffer
                                  \o (IF wr.valid THEN <<>> ELSE magic)
          /\ wr.err = NameTooLong =>
                /\ wlast'.err = NameTooLong
                /\ wlast'.written = 0
                /\ sink' = sink
                /\ wr' = wr]_vars

\* C13 witness: a call with a name that fits and a non-empty source was
\* refused with the error an earlier long name had latched.
C13_Witness ==
    /\ wlast.op = "WriteFile" /\ wlast.sticky
    /\ wlast.err = NameTooLong
    /\ Len(wlast.meta.name) <= 16 /\ wlast.src.data # <<>>

\* C14: Reset leaves the Reader as NewReader makes it, whatever state it was
\* in.  The Read that follows finds no entry open; the Next that follows
\* validates the magic again from the start of the stream: it returns the
\* first entry of a well-formed archive (or io.EOF when it has none) and
\* rejects a damaged magic.
C14_ReaderResetEquivalence ==
    [][/\ last'.op = "Reset" => (rd' = NewReader /\ ReaderFresh')
       /\ (last.op = "Reset" /\ last'.op = "Read") =>
             /\ last'.n = 0 /\ last'.err = ErrNotExist
             /\ rd' = NewReader
       /\ (last.op = "Reset" /\ last'.op = "Next") =>
             /\ WellFormed =>
                   /\ nexts' = <<expectedNext(1)>>
                   /\ rd'.buffer = Len(magic)
                         + (IF arch.sizes = <<>> THEN 0 ELSE HeaderLen)
             /\ arch.kind = "magic" =>
                   /\ last'.err = CorruptArchiveError(
                                      "global archive header not found")
                   /\ rd'.err = last'.err]_vars

\* C14 witness: Reset was called on a Reader with a latched error and with
\* unread payload bytes of an open entry, and left it fresh.
C14_Witness ==
    /\ last.op = "Reset" /\ last.err # nil /\ last.n > 0
    /\ rd = NewReader

\* C15: Writer.Reset leaves the Writer as NewWriter makes it, whatever state
\* it was in.  The WriteFile that follows finds no error latched, writes the
\* magic again, and what reaches the new sink is the magic, the header, the
\* payload and the padding of that call and no byte buffered before.
C15_WriterResetEquivalence ==
    [][/\ wlast'.op = "Reset" => (wr' = NewWriter /\ sink'.data = <<>>)
       /\ (wlast.op = "Reset" /\ wlast'.op = "WriteFile") =>
             /\ ~wlast'.sticky
             /\ wlast'.pre = <<>>
             /\ sink'.data \o wr'.buffer = emittedBy(wlast')
             /\ SubSeq(emittedBy(wlast'), 1, Len(magic)) = magic
             /\ wlast'.err = nil =>
                   sink'.data = magic \o fileHeader(wlast'.meta)
                       \o SubSeq(wlast'.src.data, 1, wlast'.meta.size)
                       \o (IF wlast'.meta.size % 2 = 1 THEN <<NL>> ELSE <<>>)
      ]_vars

\* C15 witness: Reset was called on a Writer with a latched error and bytes
\* still buffered, and left it fresh.
C15_Witness ==
    /\ wlast.op = "Reset" /\ wlast.sticky /\ Len(wlast.pre) > wlast.sunk
    /\ wr = NewWriter

\* the second Next succeeded and was called while the first entry still had
\* unread payload bytes: it moved past an entry its caller was consuming
MovedPast ==
    /\ Len(nexts) = 2 /\ ~drained
    /\ nexts[1].err = nil /\ nexts[2].err = nil

\* C16 as claimed: once Next has moved past an entry that was still being
\* consumed, a Read fails and returns no byte of the next entry's payload.
C16_StaleReadFails ==
    [][(MovedPast /\ last'.op = "Read") =>
          (last'.n = 0 /\ last'.err # nil)]_vars

\* C16 as amended: the Reader has one payload cursor and no handle per
\* entry.  Once Next has moved past entry k, what Read has delivered is the
\* bytes that follow the header Next decoded last, and never more of them
\* than that header's size: bytes of entry k+1, none of entry k.
C16_ReadFollowsLastNext ==
    (EntryOpen /\ Len(nexts) >= 2) =>
        LET start == rd.buffer - Len(got)
        IN  /\ start >= HeaderLen
            /\ parseFileHeader(Slice(stream.data, start - HeaderLen, start))
                  = [err |-> nil, fi |-> current]
            /\ got = Slice(stream.data, start, rd.buffer)
            /\ Len(got) = current.size - rd.section.N
            /\ current.size >= 0 => Len(got) <= current.size

\* C16 witness: after a Next that moved past a partly read entry, a Read
\* delivered a byte of the following entry.
C16_Witness ==
    /\ MovedPast /\ got # <<>> /\ Len(got) + rd.section.N = nexts[2].fi.size
    /\ last.op = "Read" /\ last.n > 0 /\ last.err = nil

----------------------------------------------------------------------------
(* Codec claims *)

\* C17: for metadata with a name of at most 16 bytes and a size of at least
\* 0, decoding the header the encoder produced succeeds and gives the same
\* name, the permission bits of the mode, the same size and the same mtime
\* in seconds.
C17_HeaderRoundTrip ==
    (codec.kind = "meta" /\ codec.done
       /\ Len(codec.in.name) <= 16 /\ codec.in.size >= 0) =>
        codec.out = [err |-> nil,
                     fi |-> fileInfo(codec.in.name,
                                     BitAnd(codec.in.mode, ModePerm),
                                     codec.in.size,
                                     TimeUnix(Unix(codec.in.mtime)))]

\* C18: a header whose octal mode has a bit outside the permission bits and
\* the file-type bits is corrupt ("invalid file mode"); otherwise one whose
\* file-type bits are neither 0 nor regular-file is not implemented
\* ("non-regular files"); otherwise the decode succeeds with exactly the
\* permission bits of the mode.
C18_ModePolicy ==
    (codec.kind = "mode" /\ codec.done) =>
        LET m == codec.in
            ok == decodedAt(<<4>>, 1)
        IN  codec.out =
              IF m.extra # 0
              THEN [err |-> CorruptArchiveError("invalid file mode"),
                    fi |-> NoFile]
              ELSE IF m.type \notin {0, S_IFREG}
              THEN [err |-> NotImplementedError("non-regular files"),
                    fi |-> NoFile]
              ELSE [err |-> nil, fi |-> [ok EXCEPT !.mode = m.perm]]

\* C18 witness: the header with mode 100644 was decoded to mode 0644.
C18_Witness ==
    /\ codec.kind = "mode" /\ codec.done
    /\ codec.in = [perm |-> 420, type |-> S_IFREG, extra |-> 0]
    /\ Slice(codec.hdr, 40, 48) = <<49, 48, 48, 54, 52, 52, 32, 32>>
    /\ codec.out.err = nil /\ codec.out.fi.mode = 420

\* C19: checkMagic returns nil exactly when the first 8 bytes of the stream
\* are the magic, and has then consumed 8 bytes; it returns io.EOF on an
\* empty stream, io.ErrUnexpectedEOF on a stream of 1 to 7 bytes, and
\* CorruptArchiveError("global archive header not found") when 8 bytes are
\* there and differ from the magic.
C19_MagicGuard ==
    (codec.kind = "magic" /\ codec.done) =>
        LET s == codec.in
            isMagic == Len(s) >= 8 /\ \A i \in 1..8 : s[i] = magic[i]
        IN  /\ codec.out.err = nil <=> isMagic
            /\ codec.out.err = nil => codec.out.n = 8
            /\ Len(s) = 0 => codec.out.err = EOF
            /\ Len(s) \in 1..7 => codec.out.err = ErrUnexpectedEOF
            /\ (Len(s) >= 8 /\ ~isMagic) =>
                  codec.out.err =
                      CorruptArchiveError("global archive header not found")

\* C19 witness: a stream of the magic and one more byte passed the guard,
\* which consumed 8 of its 9 bytes.
C19_Witness ==
    /\ codec.kind = "magic" /\ codec.done
    /\ codec.in = magic \o <<97>>
    /\ codec.out.err = nil /\ codec.out.n = 8

----------------------------------------------------------------------------
(* Claims about damaged headers *)

\* C20: the Next that reaches a header whose mtime, owner id, group id or
\* size is not a decimal number returns a CorruptArchiveError and no
\* metadata (with the payloads before it read to their end).
C20_NumericFieldsValidated ==
    (arch.kind \in {"mtime", "owner", "group", "size"} /\ drained
       /\ Len(nexts) >= Len(arch.sizes)) =>
        /\ nexts[Len(arch.sizes)].err.kind = "corrupt archive"
        /\ nexts[Len(arch.sizes)].fi = NoFile

\* C21: every metadata value a successful Next returns has a size of at
\* least 0, a mode of permission bits only, and a name of at most 16 bytes
\* without leading or trailing white space.
C21_DecodedMetadataInvariant ==
    \A i \in 1..Len(nexts) :
        nexts[i].err = nil =>
            LET fi == nexts[i].fi
            IN  /\ fi.size >= 0
                /\ BitAnd(fi.mode, ModePerm) = fi.mode
                /\ Len(fi.name) <= 16
                /\ TrimSpace(fi.name) = fi.name

\* C22: a Read with no sticky error and no section open returns 0 bytes and
\* os.ErrNotExist and leaves the Reader as it was: nothing is taken from the
\* stream and no error is latched, so the first Next after it on a
\* well-formed archive returns the first entry (or io.EOF when there is none).
C22_ReadWithoutEntry ==
    [][/\ (last'.op = "Read" /\ rd.err = nil /\ ~rd.section.R) =>
             /\ last'.n = 0 /\ last'.err = ErrNotExist
             /\ rd' = rd
             /\ got' = got
       /\ (last.op = "Read" /\ last.err = ErrNotExist /\ last'.op = "Next"
             /\ nexts = <<>> /\ WellFormed) =>
             nexts' = <<expectedNext(1)>>]_vars

\* C22 witness: Read was called before the first Next and returned
\* os.ErrNotExist, and the Next after it returned the first entry.
C22_Witness ==
    /\ readErr = ErrNotExist
    /\ Len(nexts) = 1 /\ last.op = "Next" /\ last.err = nil
    /\ WellFormed /\ nexts[1] = expectedNext(1)

\* C23: a Read(b) on an open section returns at most min(len(b), remaining)
\* bytes, takes exactly those bytes from the stream and counts them off
\* remaining, never makes remaining negative, returns 0 bytes and io.EOF once
\* remaining is 0, and never takes a byte of the stream beyond the payload
\* the header declared.
C23_ReadBounded ==
    [][(last'.op = "Read" /\ EntryOpen) =>
          LET remaining == rd.section.N
              payloadEnd == rd.buffer + (IF remaining > 0 THEN remaining ELSE 0)
          IN  /\ last'.n >= 0
              /\ last'.n <= Min(last'.len,
                                IF remaining > 0 THEN remaining ELSE 0)
              /\ rd'.section.N = remaining - last'.n
              /\ remaining >= 0 => rd'.section.N >= 0
              /\ remaining = 0 => (last'.n = 0 /\ last'.err = EOF)
              /\ rd'.buffer = rd.buffer + last'.n
              /\ rd'.buffer <= payloadEnd
              /\ Len(got') = Len(got) + last'.n]_vars

\* C23 witness: a Read with a buffer of two bytes returned the one byte
\* that remained of the payload although the stream held more bytes.
C23_Witness ==
    /\ last.op = "Read" /\ last.len = 2 /\ last.n = 1 /\ last.err = nil
    /\ EntryOpen /\ rd.section.N = 0
    /\ Avail(stream, rd.buffer) > 0

\* C24: a Next on an entry whose payload was read to its end looks at one
\* byte after the payload.  A newline is consumed as padding and the header
\* is the 60 bytes after it; any other byte stays, and the header is the 60
\* bytes that start with it; with no byte there, Next returns what the
\* stream ends with, io.EOF on a stream that ends cleanly.
C24_PaddingLookahead ==
    [][(last'.op = "Next" /\ EntryOpen /\ rd.section.N = 0) =>
          LET after == rd.buffer
              result == nexts'[Len(nexts')]
          IN  IF Avail(stream, after) = 0
              THEN /\ result = [fi |-> NoFile, err |-> stream.end]
                   /\ rd'.buffer = after
              ELSE LET hdr == after
                              + (IF stream.data[after + 1] = NL THEN 1 ELSE 0)
                   IN  IF Avail(stream, hdr) >= HeaderLen
                       THEN LET ph == parseFileHeader(
                                          Slice(stream.data, hdr,
                                                hdr + HeaderLen))
                            IN  /\ result = [fi |-> ph.fi, err |-> ph.err]
                                /\ rd'.buffer = hdr + HeaderLen
                       ELSE /\ result.err # nil
                            /\ Avail(stream, hdr) = 0 =>
                                  result.err = stream.end
                            /\ rd'.buffer = Len(stream.data)]_vars

\* C24 witness: the second Next of an archive followed a fully read payload
\* of even size, found the first byte of the next header after it, and
\* returned that header's entry.
C24_Witness ==
    /\ WellFormed /\ drained
    /\ Len(nexts) = 2 /\ last.op = "Next" /\ last.err = nil
    /\ arch.sizes[1] = 2
    /\ nexts[2] = expectedNext(2)

\* the number of results without an error
RECURSIVE succeeded(_)
succeeded(rs) ==
    IF rs = <<>> THEN 0
    ELSE (IF rs[1].err = nil THEN 1 ELSE 0) + succeeded(Tail(rs))

\* C25: whatever Read calls come between them, the Next calls on a bound
\* stream end in an error after at most (stream length - 8) / 60 successes:
\* a successful Next takes at least 60 bytes of the stream (the 8 bytes of
\* the magic once, on the first call, then the rest of the payload or one
\* padding byte, then the header), the position never passes the end of the
\* stream, and any longer run of Next calls holds an error.
C25_ReaderProgress ==
    [][last'.op = "Next" =>
          LET consumed == rd'.buffer - rd.buffer
              most == (Len(stream.data) - Len(magic)) \div HeaderLen
          IN  /\ last'.err = nil =>
                    /\ consumed >= HeaderLen
                    /\ ~rd.valid => consumed = Len(magic) + HeaderLen
                    /\ rd.valid =>
                          consumed \in
                              {HeaderLen + d :
                                  d \in IF rd.section.N > 0
                                        THEN {rd.section.N} ELSE {0, 1}}
              /\ rd'.buffer <= Len(stream.data)
              /\ Len(magic) + HeaderLen * succeeded(nexts') <= rd'.buffer
                    \/ succeeded(nexts') = 0
              /\ succeeded(nexts') <= (IF most > 0 THEN most ELSE 0)
              /\ Len(nexts') > most => firstErr(nexts') # nil]_vars

\* C25 witness: with Read calls in between and a payload left unread, two
\* Next calls succeeded and a later one returned an error.
C25_Witness ==
    /\ succeeded(nexts) = 2 /\ nextErr # nil
    /\ ~drained /\ readErr # nil
    /\ last.op = "Next"

----------------------------------------------------------------------------
(* Claims about emitted headers *)

\* C26: in every header WriteFile emits, the text of each field lies within
\* its slot (mtime 12 bytes at offset 16, owner and group "0" at 28 and 34,
\* mode 8 bytes at 40, size 10 bytes at 48) and the per-entry magic is at
\* offset 58: each slot, trimmed, reads back as the text of the value
\* written, none cut and none spilled (stated for the calls that return
\* no error).
C26_FieldContainment ==
    (ReachedCopy /\ wlast.err = nil) =>
        LET off == Len(wlast.pre)
                     + (IF wlast.pre = <<>> THEN Len(magic) ELSE 0)
            h == Slice(taken, off, off + HeaderLen)
        IN  /\ TrimSpace(Slice(h, 0, 16)) = wlast.meta.name
            /\ TrimSpace(Slice(h, 16, 28)) = FormatInt(Unix(wlast.meta.mtime))
            /\ Slice(h, 28, 40) = <<48>> \o Fill(5, SP) \o <<48>> \o Fill(5, SP)
            /\ TrimSpace(Slice(h, 40, 48)) = FormatUint8(wlast.meta.mode)
            /\ TrimSpace(Slice(h, 48, 58))
                  = FormatInt(Int64(wlast.meta.size))
            /\ Slice(h, 58, 60) = filemagic

====
